---- MODULE Spec2Model ----
(***************************************************************************)
(* Model of the whisk-generator batch engine (WhiskTerminalApp):           *)
(* the token pool and its cursor, the prompt file, the round-robin         *)
(* distribution of prompts, generateImagesWorker with its retry loop and   *)
(* consecutive-error stop, and the aggregation in generateImages.          *)
(*                                                                         *)
(* JavaScript runs one callback at a time: the code between two awaits is  *)
(* one atomic action.  A worker is suspended only in client.generateImage, *)
(* in fs.readFile / fs.writeFile of removePromptFromFile, in saveImage and *)
(* in the setTimeout delay.  saveImage touches no state shared between     *)
(* workers, so the saves of one response are folded into the action that   *)
(* handles the response.  fs.readFile takes effect in one step;            *)
(* fs.writeFile opens the file with flag "w", which truncates it, and      *)
(* writes the data in a later step, so that another worker can read or     *)
(* write the file in between.                                              *)
(***************************************************************************)
EXTENDS Integers, Sequences, FiniteSets, TLC

\* ---- bounds of the model ----
MaxLines == 3
MaxLongLines == 5
MaxSiblings == 2
MaxWorkers == 2
MaxPool == 2
MaxImages == 1
MaxTokens == 3
MaxDraws == 5
MaxPartPrompts == 9
MaxPartWorkers == 3
MaxTwinPrompts == 4
MaxTwinImages == 2

\* ---- program constants ----
MAX_CONSECUTIVE_PROMPT_ERRORS == 3

Null == "null"
Undefined == "undefined"
\* the value undefined as an element of a list of prompts or paths
UndefinedItem == <<"undefined">>

Letters == <<"a", "b", "c", "d", "e", "f", "g", "h", "i", "j", "k", "l">>
TokenNames == <<"t1", "t2", "t3", "t4", "t5", "t6">>

\* ---------------------------------------------------------------------
\* The prompt file.  A line is a sequence of characters; the content of the
\* file is the sequence of its lines, i.e. content.split("\n").
\* ---------------------------------------------------------------------

\* String.prototype.trim: strip leading and trailing white space.
RECURSIVE TrimLeft(_)
TrimLeft(l) == IF l # <<>> /\ Head(l) = " " THEN TrimLeft(Tail(l)) ELSE l

RECURSIVE TrimRight(_)
TrimRight(l) ==
  IF l # <<>> /\ l[Len(l)] = " " THEN TrimRight(SubSeq(l, 1, Len(l) - 1)) ELSE l

Trim(l) == TrimRight(TrimLeft(l))

\* line.startsWith("#")
StartsWithHash(l) == l # <<>> /\ Head(l) = "#"

\* lines.join("\n"): the content as a sequence of characters
RECURSIVE Join(_)
Join(ls) ==
  IF ls = <<>> THEN <<>>
  ELSE IF Len(ls) = 1 THEN Head(ls)
  ELSE Head(ls) \o <<"\n">> \o Join(Tail(ls))

\* content.split("\n"): the empty content splits into one empty line
RECURSIVE SplitFrom(_, _, _)
SplitFrom(content, k, line) ==
  IF k > Len(content) THEN <<line>>
  ELSE IF content[k] = "\n" THEN <<line>> \o SplitFrom(content, k + 1, <<>>)
  ELSE SplitFrom(content, k + 1, Append(line, content[k]))

Split(content) == SplitFrom(content, 1, <<>>)

\* write(fd, data) at position 0 of a file that holds cur: the data replace
\* the first Len(data) characters, what lies beyond them stays.
Overlay(cur, data) == data \o SubSeq(cur, Len(data) + 1, Len(cur))

\* loadPromptsFromFile: split, trim, keep the non-empty non-comment lines.
LoadPrompts(content) ==
  LET trimmed == [k \in 1..Len(content) |-> Trim(content[k])]
  IN  SelectSeq(trimmed, LAMBDA l : Len(l) > 0 /\ ~StartsWithHash(l))

\* removePromptFromFile's filter: every line whose trimmed text equals the
\* trimmed prompt is dropped, unless the raw line starts with "#".
FilterLines(lines, promptToRemove) ==
  SelectSeq(lines, LAMBDA l : Trim(l) # Trim(promptToRemove) \/ StartsWithHash(l))

\* ---------------------------------------------------------------------
\* The token pool.
\* ---------------------------------------------------------------------

\* initializeClients: one client per configured token, in order.
InitializeClients(toks) == [k \in 1..Len(toks) |-> toks[k]]

\* getNextClient with the cursor left where it is
GetNextClientStuck(cl, idx) ==
  IF Len(cl) = 0
    THEN [client |-> Null, index |-> idx]
    ELSE [client |-> IF idx + 1 \in DOMAIN cl THEN cl[idx + 1] ELSE Undefined,
          index  |-> idx]

\* getNextClient: the client at the cursor, and the advanced cursor.
GetNextClient(cl, idx) ==
  IF Len(cl) = 0
    THEN [client |-> Null, index |-> idx]
    ELSE [client |-> IF idx + 1 \in DOMAIN cl THEN cl[idx + 1] ELSE Undefined,
          index  |-> (idx + 1) % Len(cl)]

\* ---------------------------------------------------------------------
\* Distribution of the prompts over the workers.
\* ---------------------------------------------------------------------

\* promptsPerWorker[i] = [] for i < workers (worker ids are 0-based)
EmptySlices(nw) == [k \in 0..(nw - 1) |-> <<>>]

\* the forEach step with the worker computed from index + 1
PushPromptShifted(ppw, prompt, index, nw) ==
  [ppw EXCEPT ![(index + 1) % nw] = Append(@, prompt)]

\* one step of currentPrompts.forEach: push onto promptsPerWorker[index % workers]
PushPrompt(ppw, prompt, index, nw) ==
  [ppw EXCEPT ![index % nw] = Append(@, prompt)]

RECURSIVE DistributeFrom(_, _, _, _)
DistributeFrom(ppw, prompts, index, nw) ==
  IF index >= Len(prompts) THEN ppw
  ELSE DistributeFrom(PushPrompt(ppw, prompts[index + 1], index, nw),
                      prompts, index + 1, nw)

Distribute(prompts, nw) == DistributeFrom(EmptySlices(nw), prompts, 0, nw)

\* ---------------------------------------------------------------------
\* State.
\* ---------------------------------------------------------------------
VARIABLES
  file,               \* content of config.promptFile, as its lines
  tokens,             \* config.tokens (the secrets, in order)
  clients,            \* this.clients
  currentTokenIndex,  \* this.currentTokenIndex
  workers,            \* config.workers
  currentPrompts,     \* generateImages: the prompts loaded at batch start
  promptsPerWorker,   \* generateImages: the slice of each worker
  wk,                 \* generateImagesWorker: the locals of each running worker
  main,               \* position of generateImages
  summary,            \* the aggregated results and the remaining count
  drawn,              \* history: what getNextClient returned since the last initializeClients
  pidx,               \* index of the forEach that distributes the prompts
  call,               \* WhiskClient.generateImage: one call, its inputs and position
  loaded,             \* history: the lines of the file when the batch loaded it
  op,                 \* history: the last operation of the token menu
  wk1                 \* index.js generateImagesWorker: the locals of each worker

vars == <<file, tokens, clients, currentTokenIndex, workers, currentPrompts,
          promptsPerWorker, wk, main, summary, drawn, pidx, call, loaded,
          op, wk1>>

\* ---------------------------------------------------------------------
\* generateImagesWorker.  A worker record holds the locals of one call:
\*   pc        where the call is suspended: "inflight" (client.generateImage),
\*             "reading" / "opening" / "writing" (removePromptFromFile), "delay"
\*             (setTimeout), "done" (returned)
\*   i         index of the current prompt in the slice (0-based)
\*   attempts, promptHadApiError, consecutivePromptErrors, results: as in the code
\*   client    the client of the attempt in flight
\*   savedCount, lines: locals of the success path and of removePromptFromFile
\*   anyApi, used, apiRun, last, skipped, removeFailed, calls: history of the
\*             run (not read by the code): whether an attempt of the
\*             current prompt was classified
\*             429/401, the tokens of its generation calls, the number of
\*             prompts in a row that ended unsuccessfully after such an attempt,
\*             how the last prompt ended, the number of prompts given up
\*             without an attempt, whether a removePromptFromFile of
\*             this worker returned false, and the number of calls of
\*             client.generateImage.
\* ---------------------------------------------------------------------
NewResults ==
  [success |-> 0, failed |-> 0, images |-> <<>>,
   completedPrompts |-> <<>>, failedPrompts |-> <<>>]

NewWorker ==
  [pc |-> "idle", i |-> 0, attempts |-> 0, promptHadApiError |-> FALSE,
   consecutivePromptErrors |-> 0, results |-> NewResults, client |-> Null,
   savedCount |-> 0, lines |-> <<>>, anyApi |-> FALSE, used |-> <<>>,
   apiRun |-> 0, last |-> "none", skipped |-> 0, removeFailed |-> FALSE,
   calls |-> 0]

\* the locals of one loop iteration go out of scope when it ends
EndIteration(w, pc) ==
  [w EXCEPT !.pc = pc, !.attempts = 0, !.promptHadApiError = FALSE,
            !.client = Null, !.savedCount = 0, !.lines = <<>>,
            !.anyApi = FALSE, !.used = <<>>]

\* History of the prompt that just ended: how it ended, and the number of
\* prompts in a row that ended unsuccessfully after a 429/401 attempt.
Record(w, end) ==
  [w EXCEPT !.last = end,
            !.apiRun = IF end # "succeeded" /\ w.anyApi THEN @ + 1 ELSE 0]

\* the loop over the rest of the slice that counts the prompts without
\* pushing them onto failedPrompts
RECURSIVE FailRemainingCountOnly(_, _, _)
FailRemainingCountOnly(w, slice, j) ==
  IF j >= Len(slice) THEN w
  ELSE FailRemainingCountOnly(
         [w EXCEPT !.results.failed = @ + 1, !.skipped = @ + 1],
         slice, j + 1)

\* for (j = i + 1; j < prompts.length; j++) { failedPrompts.push(prompts[j]); failed++ }
RECURSIVE FailRemaining(_, _, _)
FailRemaining(w, slice, j) ==
  IF j >= Len(slice) THEN w
  ELSE FailRemaining(
         [w EXCEPT !.results.failedPrompts = Append(@, slice[j + 1]),
                   !.results.failed = @ + 1,
                   !.skipped = @ + 1],
         slice, j + 1)

\* the code after the retry loop with the delay taken only after a prompt
\* that succeeded: after any other prompt the worker returns
AfterLoopDelayOnSuccess(w, slice, end) ==
  LET h == Record(w, end)
      n == IF h.promptHadApiError THEN h.consecutivePromptErrors + 1 ELSE 0
      c == [h EXCEPT !.consecutivePromptErrors = n]
  IN  IF h.promptHadApiError /\ n >= MAX_CONSECUTIVE_PROMPT_ERRORS
        THEN EndIteration(FailRemaining(c, slice, c.i + 1), "done")
        ELSE IF c.i < Len(slice) - 1 /\ end = "succeeded"
               THEN EndIteration(c, "delay")
               ELSE EndIteration(c, "done")

\* the code after the retry loop with ">" in place of ">=" in the stop test
AfterLoopLate(w, slice, end) ==
  LET h == Record(w, end)
      n == IF h.promptHadApiError THEN h.consecutivePromptErrors + 1 ELSE 0
      c == [h EXCEPT !.consecutivePromptErrors = n]
  IN  IF h.promptHadApiError /\ n > MAX_CONSECUTIVE_PROMPT_ERRORS
        THEN EndIteration(FailRemaining(c, slice, c.i + 1), "done")
        ELSE IF c.i < Len(slice) - 1
               THEN EndIteration(c, "delay")
               ELSE EndIteration(c, "done")

\* After the retry loop: the consecutive-error counter, the early return, and
\* the delay before the next prompt.
AfterLoop(w, slice, end) ==
  LET h == Record(w, end)
      n == IF h.promptHadApiError THEN h.consecutivePromptErrors + 1 ELSE 0
      c == [h EXCEPT !.consecutivePromptErrors = n]
  IN  IF h.promptHadApiError /\ n >= MAX_CONSECUTIVE_PROMPT_ERRORS
        THEN EndIteration(FailRemaining(c, slice, c.i + 1), "done")
        ELSE IF c.i < Len(slice) - 1
               THEN EndIteration(c, "delay")
               ELSE EndIteration(c, "done")

\* two attempts for every client
MaxAttemptsTwice(cl) == IF Len(cl) > 0 THEN 2 * Len(cl) ELSE 1

\* one attempt more than there are clients
MaxAttemptsPlusOne(cl) == IF Len(cl) > 0 THEN Len(cl) + 1 ELSE 1

\* const maxAttempts = this.clients.length > 0 ? this.clients.length : 1
MaxAttempts(cl) == IF Len(cl) > 0 THEN Len(cl) ELSE 1

\* the head of the while loop without the results.failed++ of the no-client case
LoopHeadNoCount(w, idx, slice, cl) ==
  IF w.attempts < MaxAttempts(cl)
    THEN LET g == GetNextClient(cl, idx)
         IN  IF g.client = Null
               THEN [w   |-> AfterLoop(w, slice, "notokens"), idx |-> g.index]
               ELSE [w   |-> [w EXCEPT !.pc = "inflight", !.client = g.client,
                                       !.used = Append(@, g.client),
                                       !.calls = @ + 1],
                     idx |-> g.index]
    ELSE [w |-> AfterLoop(w, slice, "abandoned"), idx |-> idx]

\* Head of the while loop: while (!success && attempts < maxAttempts) draw a
\* client; with no client the prompt is counted failed and the loop is left,
\* otherwise client.generateImage is called and the worker is suspended.
\* The result is the worker together with the shared cursor.
LoopHead(w, idx, slice, cl) ==
  IF w.attempts < MaxAttempts(cl)
    THEN LET g == GetNextClient(cl, idx)
         IN  IF g.client = Null
               THEN [w   |-> AfterLoop([w EXCEPT !.results.failed = @ + 1],
                                       slice, "notokens"),
                     idx |-> g.index]
               ELSE [w   |-> [w EXCEPT !.pc = "inflight", !.client = g.client,
                                       !.used = Append(@, g.client),
                                       !.calls = @ + 1],
                     idx |-> g.index]
    ELSE [w |-> AfterLoop(w, slice, "abandoned"), idx |-> idx]

\* Start of the loop body for prompt i: the client drawn "for this job" (and
\* never used), the fresh locals, then the retry loop.
BeginPrompt(w, idx, slice, cl, i) ==
  LET g == GetNextClient(cl, idx)
  IN  LoopHead([w EXCEPT !.i = i, !.attempts = 0, !.promptHadApiError = FALSE,
                         !.anyApi = FALSE, !.used = <<>>],
               g.index, slice, cl)

\* a failed attempt whose error leaves the worker: the call rejects
AttemptFailedRejects(w, idx, slice, cl, api) ==
  [w |-> [w EXCEPT !.pc = "rejected"], idx |-> idx]

\* a failed attempt that leaves failedPrompts alone when the attempts are used up
AttemptFailedNoPush(w, idx, slice, cl, api) ==
  LET a == [w EXCEPT !.attempts = @ + 1,
                     !.promptHadApiError = @ \/ api,
                     !.anyApi = @ \/ api]
      b == IF a.attempts >= MaxAttempts(cl)
             THEN [a EXCEPT !.results.failed = @ + 1]
             ELSE a
  IN  LoopHead(b, idx, slice, cl)

\* A failed attempt: result.Err, no image panels, or the catch block.
\* api: the message contains "429" or "401".
AttemptFailed(w, idx, slice, cl, api) ==
  LET a == [w EXCEPT !.attempts = @ + 1,
                     !.promptHadApiError = @ \/ api,
                     !.anyApi = @ \/ api]
      b == IF a.attempts >= MaxAttempts(cl)
             THEN [a EXCEPT !.results.failed = @ + 1,
                            !.results.failedPrompts = Append(@, slice[a.i + 1])]
             ELSE a
  IN  LoopHead(b, idx, slice, cl)

\* The path of a saved image, by the parts of its file name
\* w<workerId + 1>_<timestamp>_<aspectShort>_<savedCount + 1>.jpg; the
\* position of the prompt stands for the time of the save.
ImagePath(id, w, k) == <<"w", id + 1, w.i, "aspect", k>>

\* results.images.push(filePath) for the images 1..n of one response
PushImages(id, w, n) ==
  [w EXCEPT !.results.images =
     @ \o [k \in 1..n |-> ImagePath(id, w, k)]]

\* the success path without the reset of promptHadApiError
FinishSuccessKeepFlag(w, slice) ==
  AfterLoop([w EXCEPT !.results.success = @ + w.savedCount,
                      !.results.completedPrompts = Append(@, slice[w.i + 1])],
            slice, "succeeded")

\* After removePromptFromFile returned: the prompt is recorded as completed.
FinishSuccess(w, slice) ==
  AfterLoop([w EXCEPT !.results.success = @ + w.savedCount,
                      !.results.completedPrompts = Append(@, slice[w.i + 1]),
                      !.promptHadApiError = FALSE],
            slice, "succeeded")

\* ---------------------------------------------------------------------
\* generateImages.
\* ---------------------------------------------------------------------

\* The placeholder result of a worker whose slice is empty: it has no
\* failedPrompts field.
EmptySliceResult ==
  [success |-> 0, failed |-> 0, images |-> <<>>, completedPrompts |-> <<>>]

\* promptsPerWorker.map(...): the workers are called one after the other, and
\* each call runs to its first await before the next one starts.
RECURSIVE StartWorkers(_, _, _, _, _)
StartWorkers(acc, idx, ppw, cl, id) ==
  IF id \notin DOMAIN ppw THEN [wk |-> acc, idx |-> idx]
  ELSE IF Len(ppw[id]) = 0
    THEN StartWorkers(
           [acc EXCEPT ![id] = [NewWorker EXCEPT !.pc = "done",
                                                 !.results = EmptySliceResult]],
           idx, ppw, cl, id + 1)
    ELSE LET r == BeginPrompt(NewWorker, idx, ppw[id], cl, 0)
         IN  StartWorkers([acc EXCEPT ![id] = r.w], r.idx, ppw, cl, id + 1)

\* results.flatMap(result => result.<field>): an array is spliced in; a
\* missing field reads as undefined, which is kept as one element.
RECURSIVE FlatMap(_, _)
FlatMap(rs, f) ==
  IF rs = <<>> THEN <<>>
  ELSE (IF f \in DOMAIN Head(rs) THEN Head(rs)[f] ELSE <<UndefinedItem>>)
         \o FlatMap(Tail(rs), f)

\* results.reduce((sum, result) => sum + result.<field>, 0)
RECURSIVE Reduce(_, _)
Reduce(rs, f) == IF rs = <<>> THEN 0 ELSE Head(rs)[f] + Reduce(Tail(rs), f)

\* the worker results in worker order, as Promise.all delivers them
ResultList(w, nw) == [k \in 1..nw |-> w[k - 1].results]

NoSummary == [made |-> FALSE]

\* no call of WhiskClient.generateImage is followed step by step
NoCall == [pc |-> "none"]

\* no operation of the token menu has run
NoOp == [name |-> "none", input |-> "", done |-> FALSE]

\* ---------------------------------------------------------------------
\* Initial states of a batch run.  The prompt file has a comment header, n
\* prompt lines (every second one indented) and a final empty line; the n
\* lines cycle through nt distinct texts.
\* ---------------------------------------------------------------------
PromptLine(k, nt) ==
  IF k % 2 = 0 THEN <<" ", Letters[((k - 1) % nt) + 1]>>
               ELSE <<Letters[((k - 1) % nt) + 1]>>

MakeFile(n, nt) ==
  << <<"#", "a">> >> \o [k \in 1..n |-> PromptLine(k, nt)] \o << <<>> >>

TokenLists == {SubSeq(TokenNames, 1, n) : n \in 0..MaxPool}

\* The state in which the menu starts a batch: files, token lists and worker
\* counts are drawn from the given sets.
BatchInit(files, tokenLists, workerCounts) ==
  /\ file \in files
  /\ tokens \in tokenLists
     \* autoLoadSettings: initializeClients builds the clients, or throws on a
     \* malformed entry and leaves the constructor's empty list
  /\ clients \in {InitializeClients(tokens), <<>>}
     \* earlier batches leave the cursor anywhere in the pool
  /\ currentTokenIndex \in {k \in 0..Len(tokens) : k = 0 \/ k < Len(clients)}
  /\ workers \in workerCounts
  /\ currentPrompts = <<>>
  /\ promptsPerWorker = <<>>
  /\ wk = <<>>
  /\ main = "menu"
  /\ summary = NoSummary
  /\ drawn = <<>>
  /\ pidx = 0
  /\ loaded = <<>>
  /\ op = NoOp
  /\ wk1 = <<>>
  /\ call = NoCall

\* Short files, any pool, any worker count.
Init ==
  BatchInit({MakeFile(n, nt) : n \in 0..MaxLines, nt \in 1..MaxLines},
            TokenLists, 1..MaxWorkers)

\* One worker and a file long enough for the worker to stop early and leave
\* prompts unattempted.
InitLong ==
  BatchInit({MakeFile(n, nt) :
               n \in (MAX_CONSECUTIVE_PROMPT_ERRORS + 1)..MaxLongLines,
               nt \in (MaxLongLines - 1)..MaxLongLines},
            TokenLists \ {<<>>}, {1})
  /\ clients = InitializeClients(tokens)

\* Several workers, each with a slice long enough to stop early, one token.
InitSiblings ==
  BatchInit({MakeFile(w * MAX_CONSECUTIVE_PROMPT_ERRORS,
                      w * MAX_CONSECUTIVE_PROMPT_ERRORS) : w \in 2..MaxSiblings},
            {SubSeq(TokenNames, 1, 1)}, 2..MaxSiblings)
  /\ Len(LoadPrompts(file)) = workers * MAX_CONSECUTIVE_PROMPT_ERRORS
  /\ clients = InitializeClients(tokens)

\* generateImages returns before any worker is started.
LoadFailed ==
  /\ main = "menu"
  /\ main' = "aborted"
  /\ UNCHANGED <<file, tokens, clients, currentTokenIndex, workers,
                 currentPrompts, promptsPerWorker, wk, summary, drawn, pidx, call,
                 loaded, op, wk1>>

NoTokens ==
  /\ main = "menu"
  /\ Len(tokens) = 0
  /\ currentPrompts' = LoadPrompts(file)
  /\ main' = "aborted"
  /\ UNCHANGED <<file, tokens, clients, currentTokenIndex, workers,
                 promptsPerWorker, wk, summary, drawn, pidx, call,
                 loaded, op, wk1>>

NoPrompts ==
  /\ main = "menu"
  /\ Len(tokens) # 0
  /\ Len(LoadPrompts(file)) = 0
  /\ currentPrompts' = LoadPrompts(file)
  /\ main' = "aborted"
  /\ UNCHANGED <<file, tokens, clients, currentTokenIndex, workers,
                 promptsPerWorker, wk, summary, drawn, pidx, call,
                 loaded, op, wk1>>

Cancelled ==
  /\ main = "menu"
  /\ Len(tokens) # 0
  /\ Len(LoadPrompts(file)) # 0
  /\ currentPrompts' = LoadPrompts(file)
  /\ main' = "aborted"
  /\ UNCHANGED <<file, tokens, clients, currentTokenIndex, workers,
                 promptsPerWorker, wk, summary, drawn, pidx, call,
                 loaded, op, wk1>>

\* the start of the workers without the test of config.tokens
LaunchUnchecked ==
  /\ main = "menu"
  /\ Len(LoadPrompts(file)) # 0
  /\ LET prompts == LoadPrompts(file)
         ppw == Distribute(prompts, workers)
         r == StartWorkers([id \in 0..(workers - 1) |-> NewWorker],
                           currentTokenIndex, ppw, clients, 0)
     IN  /\ currentPrompts' = prompts
         /\ promptsPerWorker' = ppw
         /\ wk' = r.wk
         /\ currentTokenIndex' = r.idx
  /\ main' = "running"
  /\ loaded' = file
  /\ UNCHANGED <<file, tokens, clients, workers, summary, drawn, pidx, call,
                 op, wk1>>

\* The prompts are loaded, distributed, and every worker is started.
Launch ==
  /\ main = "menu"
  /\ Len(tokens) # 0
  /\ Len(LoadPrompts(file)) # 0
  /\ LET prompts == LoadPrompts(file)
         ppw == Distribute(prompts, workers)
         r == StartWorkers([id \in 0..(workers - 1) |-> NewWorker],
                           currentTokenIndex, ppw, clients, 0)
     IN  /\ currentPrompts' = prompts
         /\ promptsPerWorker' = ppw
         /\ wk' = r.wk
         /\ currentTokenIndex' = r.idx
  /\ main' = "running"
  /\ loaded' = file
  /\ UNCHANGED <<file, tokens, clients, workers, summary, drawn, pidx, call,
                 op, wk1>>

\* What one call of client.generateImage, followed by the saves of its
\* images, can come to:
\*   Err      a returned Err            Throw   generateImage throws
\*   NoPanels an Ok without imagePanels
\*   Panels   imagePanels with n images; failAt = k > 0: saveImage throws on
\*            image k, after images 1..k-1 were saved
\* api: the error message contains "429" or "401".
OutcomesUpTo(m) ==
  [kind : {"Err", "Throw"}, api : BOOLEAN, n : {0}, failAt : {0}]
  \cup [kind : {"NoPanels"}, api : {FALSE}, n : {0}, failAt : {0}]
  \cup {o \in [kind : {"Panels"}, api : BOOLEAN, n : 0..m, failAt : 0..m] :
          o.failAt <= o.n /\ (o.failAt = 0 => ~o.api)}

Outcomes == OutcomesUpTo(MaxImages)

\* The call of worker id settles as o: with every image saved the worker
\* goes on to removePromptFromFile, otherwise the attempt has failed.
Settle(id, o) ==
  LET w == wk[id]
      slice == promptsPerWorker[id]
  IN  IF o.kind = "Panels" /\ o.failAt = 0
        THEN /\ wk' = [wk EXCEPT ![id] =
                  [PushImages(id, w, o.n) EXCEPT !.savedCount = o.n,
                                                 !.pc = "reading"]]
             /\ UNCHANGED currentTokenIndex
        ELSE LET saved == IF o.kind = "Panels" THEN o.failAt - 1 ELSE 0
                 r == AttemptFailed(PushImages(id, w, saved),
                                    currentTokenIndex, slice, clients, o.api)
             IN  /\ wk' = [wk EXCEPT ![id] = r.w]
                 /\ currentTokenIndex' = r.idx

\* client.generateImage settles and the worker runs to its next await.
Response(id) ==
  /\ main = "running"
  /\ wk[id].pc = "inflight"
  /\ \E o \in Outcomes : Settle(id, o)
  /\ UNCHANGED <<file, tokens, clients, workers, currentPrompts,
                 promptsPerWorker, main, summary, drawn, pidx, call,
                 loaded, op, wk1>>

\* removePromptFromFile: fs.readFile settles.
ReadFile(id) ==
  /\ main = "running"
  /\ wk[id].pc = "reading"
  /\ \E ok \in BOOLEAN :
       IF ok
         THEN wk' = [wk EXCEPT ![id].lines = file, ![id].pc = "opening"]
         ELSE wk' = [wk EXCEPT ![id] =
                       FinishSuccess([wk[id] EXCEPT !.removeFailed = TRUE],
                                     promptsPerWorker[id])]
  /\ UNCHANGED <<file, tokens, clients, currentTokenIndex, workers,
                 currentPrompts, promptsPerWorker, main, summary, drawn, pidx, call,
                 loaded, op, wk1>>

\* removePromptFromFile: fs.writeFile opens the file for writing, which
\* truncates it; a failed open leaves the file as it was.
OpenFile(id) ==
  /\ main = "running"
  /\ wk[id].pc = "opening"
  /\ \E ok \in BOOLEAN :
       IF ok
         THEN /\ file' = Split(<<>>)
              /\ wk' = [wk EXCEPT ![id].pc = "writing"]
         ELSE /\ file' = file
              /\ wk' = [wk EXCEPT ![id] =
                          FinishSuccess([wk[id] EXCEPT !.removeFailed = TRUE],
                                        promptsPerWorker[id])]
  /\ UNCHANGED <<tokens, clients, currentTokenIndex, workers,
                 currentPrompts, promptsPerWorker, main, summary, drawn, pidx, call,
                 loaded, op, wk1>>

\* removePromptFromFile: fs.writeFile writes filteredLines.join("\n") from
\* position 0 of what the file holds by then; a failed write leaves the file
\* as the open (or another writer) left it.
WriteFile(id) ==
  /\ main = "running"
  /\ wk[id].pc = "writing"
  /\ \E ok \in BOOLEAN :
       /\ file' = IF ok
                    THEN Split(Overlay(Join(file),
                           Join(FilterLines(wk[id].lines,
                                            promptsPerWorker[id][wk[id].i + 1]))))
                    ELSE file
       /\ wk' = [wk EXCEPT ![id] =
                   FinishSuccess([wk[id] EXCEPT !.removeFailed = @ \/ ~ok],
                                 promptsPerWorker[id])]
  /\ UNCHANGED <<tokens, clients, currentTokenIndex, workers,
                 currentPrompts, promptsPerWorker, main, summary, drawn, pidx, call,
                 loaded, op, wk1>>

\* the end of the delay with the loop index left where it was: the worker
\* takes the prompt it has just finished once more
DelayElapsedRepeats(id) ==
  /\ main = "running"
  /\ wk[id].pc = "delay"
  /\ LET r == BeginPrompt(wk[id], currentTokenIndex, promptsPerWorker[id],
                          clients, wk[id].i)
     IN  /\ wk' = [wk EXCEPT ![id] = r.w]
         /\ currentTokenIndex' = r.idx
  /\ UNCHANGED <<file, tokens, clients, workers, currentPrompts,
                 promptsPerWorker, main, summary, drawn, pidx, call,
                 loaded, op, wk1>>

\* The delay between two prompts of a worker elapses.
DelayElapsed(id) ==
  /\ main = "running"
  /\ wk[id].pc = "delay"
  /\ LET r == BeginPrompt(wk[id], currentTokenIndex, promptsPerWorker[id],
                          clients, wk[id].i + 1)
     IN  /\ wk' = [wk EXCEPT ![id] = r.w]
         /\ currentTokenIndex' = r.idx
  /\ UNCHANGED <<file, tokens, clients, workers, currentPrompts,
                 promptsPerWorker, main, summary, drawn, pidx, call,
                 loaded, op, wk1>>

\* the aggregation run as soon as one worker has returned
AggregateEarly ==
  /\ main = "running"
  /\ \E id \in DOMAIN wk : wk[id].pc = "done"
  /\ \E readable \in BOOLEAN :
       LET results == ResultList(wk, workers)
       IN  summary' =
             [made |-> TRUE,
              totalSuccess |-> Reduce(results, "success"),
              totalFailed |-> Reduce(results, "failed"),
              allImages |-> FlatMap(results, "images"),
              allCompletedPrompts |-> FlatMap(results, "completedPrompts"),
              allFailedPrompts |-> FlatMap(results, "failedPrompts"),
              remainingPrompts |-> IF readable THEN Len(LoadPrompts(file)) ELSE 0,
              counted |-> readable]
  /\ main' = "done"
  /\ UNCHANGED <<file, tokens, clients, currentTokenIndex, workers,
                 currentPrompts, promptsPerWorker, wk, drawn, pidx, call,
                 loaded, op, wk1>>

\* Promise.all settles: the results are aggregated and the file is re-read
\* for the number of remaining prompts (0 when it cannot be read).
Aggregate ==
  /\ main = "running"
  /\ \A id \in DOMAIN wk : wk[id].pc = "done"
  /\ \E readable \in BOOLEAN :
       LET results == ResultList(wk, workers)
       IN  summary' =
             [made |-> TRUE,
              totalSuccess |-> Reduce(results, "success"),
              totalFailed |-> Reduce(results, "failed"),
              allImages |-> FlatMap(results, "images"),
              allCompletedPrompts |-> FlatMap(results, "completedPrompts"),
              allFailedPrompts |-> FlatMap(results, "failedPrompts"),
              remainingPrompts |-> IF readable THEN Len(LoadPrompts(file)) ELSE 0,
              counted |-> readable]
  /\ main' = "done"
  /\ UNCHANGED <<file, tokens, clients, currentTokenIndex, workers,
                 currentPrompts, promptsPerWorker, wk, drawn, pidx, call,
                 loaded, op, wk1>>

Next ==
  \/ LoadFailed
  \/ NoTokens
  \/ NoPrompts
  \/ Cancelled
  \/ Launch
  \/ \E id \in DOMAIN wk : Response(id)
  \/ \E id \in DOMAIN wk : ReadFile(id)
  \/ \E id \in DOMAIN wk : OpenFile(id)
  \/ \E id \in DOMAIN wk : WriteFile(id)
  \/ \E id \in DOMAIN wk : DelayElapsed(id)
  \/ Aggregate

\* A batch that is started: the prompts are loaded and the workers run.
NextRun ==
  \/ Launch
  \/ \E id \in DOMAIN wk : Response(id)
  \/ \E id \in DOMAIN wk : ReadFile(id)
  \/ \E id \in DOMAIN wk : OpenFile(id)
  \/ \E id \in DOMAIN wk : WriteFile(id)
  \/ \E id \in DOMAIN wk : DelayElapsed(id)
  \/ Aggregate

Spec == Init /\ [][Next]_vars

\* Every await of a started batch settles: a pending step of the run is
\* eventually taken.
SpecFair == Init /\ [][Next]_vars /\ WF_vars(NextRun)

SpecLong == InitLong /\ [][NextRun]_vars

SpecSiblings == InitSiblings /\ [][NextRun]_vars

\* ---------------------------------------------------------------------
\* The token menu: addToken, removeToken, clearAllTokens, and the draws of
\* getNextClient that workers make between the menu operations.
\* ---------------------------------------------------------------------
InitPool ==
  /\ file = << <<>> >>
  /\ tokens = <<>>
  /\ clients = <<>>
  /\ currentTokenIndex = 0
  /\ workers = 1
  /\ currentPrompts = <<>>
  /\ promptsPerWorker = <<>>
  /\ wk = <<>>
  /\ main = "menu"
  /\ summary = NoSummary
  /\ drawn = <<>>
  /\ pidx = 0
  /\ loaded = <<>>
  /\ op = NoOp
  /\ wk1 = <<>>
  /\ call = NoCall

\* the secrets a user may type; "" is an empty answer
TokenInputs == {TokenNames[k] : k \in 1..(MaxTokens + 1)} \cup {""}

\* Array.prototype.splice(tokenIndex, 1)
Splice(s, tokenIndex) ==
  [k \in 1..(Len(s) - 1) |-> IF k <= tokenIndex THEN s[k] ELSE s[k + 1]]

\* addToken without the test for a token that is already configured
AddTokenNoDuplicateTest ==
  /\ main = "menu"
  /\ \E token \in TokenInputs :
       /\ Len(tokens) < MaxTokens \/ token = ""
       /\ IF token = ""
            THEN /\ op' = [name |-> "addToken", input |-> token, done |-> FALSE]
                 /\ UNCHANGED <<tokens, clients, currentTokenIndex, drawn>>
            ELSE /\ tokens' = Append(tokens, token)
                 /\ clients' = InitializeClients(tokens')
                 /\ currentTokenIndex' = 0
                 /\ drawn' = <<>>
                 /\ op' = [name |-> "addToken", input |-> token, done |-> TRUE]
  /\ UNCHANGED <<file, workers, currentPrompts, promptsPerWorker, wk, main,
                 summary, pidx, call, loaded, wk1>>

\* addToken: an empty answer and a token that is already configured are
\* turned down; otherwise the token is pushed and the clients are rebuilt.
AddToken ==
  /\ main = "menu"
  /\ \E token \in TokenInputs :
       LET exists == \E k \in DOMAIN tokens : tokens[k] = token
       IN  /\ Len(tokens) < MaxTokens \/ token = "" \/ exists
           /\ IF token = "" \/ exists
                THEN /\ op' = [name |-> "addToken", input |-> token,
                               done |-> FALSE]
                     /\ UNCHANGED <<tokens, clients, currentTokenIndex, drawn>>
                ELSE /\ tokens' = Append(tokens, token)
                     /\ clients' = InitializeClients(tokens')
                     /\ currentTokenIndex' = 0
                     /\ drawn' = <<>>
                     /\ op' = [name |-> "addToken", input |-> token,
                               done |-> TRUE]
  /\ UNCHANGED <<file, workers, currentPrompts, promptsPerWorker, wk, main,
                 summary, pidx, call, loaded, wk1>>

\* removeToken without the call of initializeClients
RemoveTokenNoRebuild ==
  /\ main = "menu"
  /\ \E choice \in 0..(MaxTokens + 1) :
       LET tokenIndex == choice - 1
       IN  IF Len(tokens) = 0 \/ choice = 0
              \/ tokenIndex < 0 \/ tokenIndex >= Len(tokens)
             THEN /\ op' = [name |-> "removeToken", input |-> "",
                            done |-> FALSE]
                  /\ UNCHANGED <<tokens, clients, currentTokenIndex, drawn>>
             ELSE /\ tokens' = Splice(tokens, tokenIndex)
                  /\ drawn' = <<>>
                  /\ op' = [name |-> "removeToken",
                            input |-> tokens[tokenIndex + 1], done |-> TRUE]
                  /\ UNCHANGED <<clients, currentTokenIndex>>
  /\ UNCHANGED <<file, workers, currentPrompts, promptsPerWorker, wk, main,
                 summary, pidx, call, loaded, wk1>>

\* removeToken: the chosen token is spliced out and the clients are rebuilt;
\* choice 0 and a number outside the list change nothing.
RemoveToken ==
  /\ main = "menu"
  /\ \E choice \in 0..(MaxTokens + 1) :
       LET tokenIndex == choice - 1
       IN  IF Len(tokens) = 0 \/ choice = 0
              \/ tokenIndex < 0 \/ tokenIndex >= Len(tokens)
             THEN /\ op' = [name |-> "removeToken", input |-> "",
                            done |-> FALSE]
                  /\ UNCHANGED <<tokens, clients, currentTokenIndex, drawn>>
             ELSE /\ tokens' = Splice(tokens, tokenIndex)
                  /\ clients' = InitializeClients(tokens')
                  /\ currentTokenIndex' = 0
                  /\ drawn' = <<>>
                  /\ op' = [name |-> "removeToken",
                            input |-> tokens[tokenIndex + 1], done |-> TRUE]
  /\ UNCHANGED <<file, workers, currentPrompts, promptsPerWorker, wk, main,
                 summary, pidx, call, loaded, wk1>>

\* clearAllTokens: after the confirmation both lists are emptied; the
\* cursor is left where it is.
ClearAllTokens ==
  /\ main = "menu"
  /\ \E confirm \in BOOLEAN :
       IF Len(tokens) = 0 \/ ~confirm
         THEN /\ op' = [name |-> "clearAllTokens", input |-> "", done |-> FALSE]
              /\ UNCHANGED <<tokens, clients, currentTokenIndex, drawn>>
         ELSE /\ tokens' = <<>>
              /\ clients' = <<>>
              /\ drawn' = <<>>
              /\ op' = [name |-> "clearAllTokens", input |-> "", done |-> TRUE]
              /\ UNCHANGED currentTokenIndex
  /\ UNCHANGED <<file, workers, currentPrompts, promptsPerWorker, wk, main,
                 summary, pidx, call, loaded, wk1>>

\* one getNextClient() call of some worker
DrawClient ==
  /\ main = "menu"
  /\ Len(drawn) < MaxDraws
  /\ LET g == GetNextClient(clients, currentTokenIndex)
     IN  /\ drawn' = Append(drawn, g.client)
         /\ currentTokenIndex' = g.index
  /\ op' = [name |-> "getNextClient", input |-> "", done |-> TRUE]
  /\ UNCHANGED <<file, tokens, clients, workers, currentPrompts,
                 promptsPerWorker, wk, main, summary, pidx, call,
                 loaded, wk1>>

NextPool == AddToken \/ RemoveToken \/ ClearAllTokens \/ DrawClient

SpecPool == InitPool /\ [][NextPool]_vars

\* ---------------------------------------------------------------------
\* The distribution loop of generateImages on its own, one forEach step at
\* a time.
\* ---------------------------------------------------------------------
InitPart ==
  /\ file = << <<>> >>
  /\ tokens = <<>>
  /\ clients = <<>>
  /\ currentTokenIndex = 0
  /\ workers \in 1..MaxPartWorkers
  /\ \E n \in 0..MaxPartPrompts : \E nt \in {2, MaxPartPrompts + 1} :
       currentPrompts = [k \in 1..n |-> <<Letters[((k - 1) % nt) + 1]>>]
  /\ promptsPerWorker = EmptySlices(workers)
  /\ wk = <<>>
  /\ main = "distributing"
  /\ summary = NoSummary
  /\ drawn = <<>>
  /\ pidx = 0
  /\ loaded = <<>>
  /\ op = NoOp
  /\ wk1 = <<>>
  /\ call = NoCall

DistributeStep ==
  /\ main = "distributing"
  /\ pidx < Len(currentPrompts)
  /\ promptsPerWorker' =
       PushPrompt(promptsPerWorker, currentPrompts[pidx + 1], pidx, workers)
  /\ pidx' = pidx + 1
  /\ UNCHANGED <<file, tokens, clients, currentTokenIndex, workers,
                 currentPrompts, wk, main, summary, drawn, call,
                 loaded, op, wk1>>

NextPart == DistributeStep

SpecPart == InitPart /\ [][NextPart]_vars

\* ---------------------------------------------------------------------
\* WhiskClient.generateImage, one call followed from await to await.  The
\* key of the client, the prompt, and what the transport will do are fixed
\* when the call starts:
\*   authorizationKey  "" for a client built from a token entry without a key
\*   prompt            "" for a missing prompt text
\*   fetch             the status of the response, or 0 when there is none
\*                     (a network-level fault: the promise of fetch rejects)
\*   text              "fault" (the promise of response.text rejects) or the
\*                     body: "" empty, "garbage" not JSON, "null" the JSON
\*                     value null, "error" an object with an error field,
\*                     "panels" / "nopanels" an object without one
\* ---------------------------------------------------------------------
Statuses == {200, 401, 429, 500}

NoResponse == 0

FetchOutcomes == {NoResponse} \cup Statuses

\* new Error(`HTTP error! status: ${response.status}`).message
HttpError(status) ==
  CASE status = 401 -> "HTTP error! status: 401"
    [] status = 429 -> "HTTP error! status: 429"
    [] OTHER        -> "HTTP error! status: 500"

TextOutcomes == {"fault", "", "garbage", "null", "error", "panels", "nopanels"}

\* a call that returned {Err: e} or {Ok: v}, or that threw e
Returned(c, kind, value) ==
  [c EXCEPT !.pc = "returned", !.result = [kind |-> kind, value |-> value]]

Thrown(c, e) ==
  [c EXCEPT !.pc = "thrown", !.result = [kind |-> "thrown", value |-> e]]

\* try { JSON.parse(resp.Ok); parsedResp.error ... } catch: null parses, and
\* reading its error field throws inside the try
ParseResponse(c, data) ==
  IF data \in {"garbage", "null"}
    THEN Returned(c, "Err", "Failed to parse response")
    ELSE IF data = "error"
      THEN Returned(c, "Err", "Failed to generate image")
      ELSE Returned(c, "Ok", data)

InitClient ==
  /\ file = << <<>> >>
  /\ tokens = <<>>
  /\ clients = <<>>
  /\ currentTokenIndex = 0
  /\ workers = 1
  /\ currentPrompts = <<>>
  /\ promptsPerWorker = <<>>
  /\ wk = <<>>
  /\ main = "menu"
  /\ summary = NoSummary
  /\ drawn = <<>>
  /\ pidx = 0
  /\ loaded = <<>>
  /\ op = NoOp
  /\ wk1 = <<>>
  /\ call \in [pc : {"start"}, authorizationKey : {"", TokenNames[1]},
               prompt : {"", Letters[1]}, fetch : FetchOutcomes,
               text : TextOutcomes, requests : {0},
               result : {[kind |-> "none", value |-> Null]}]

\* await this.checkCredentials(), then the test of the prompt
CheckCredentials ==
  /\ call.pc = "start"
  /\ call' = IF call.authorizationKey = ""
               THEN Thrown(call, "Missing authorization key")
               ELSE IF call.prompt = ""
                 THEN Returned(call, "Err", "Invalid prompt")
                 ELSE [call EXCEPT !.pc = "projectId"]
  /\ UNCHANGED <<file, tokens, clients, currentTokenIndex, workers,
                 currentPrompts, promptsPerWorker, wk, main, summary, drawn,
                 pidx, loaded, op, wk1>>

\* await this.getNewProjectId(...) returns an Ok; the request is built and
\* request() calls fetch
GetNewProjectId ==
  /\ call.pc = "projectId"
  /\ call' = [call EXCEPT !.pc = "fetch", !.requests = @ + 1]
  /\ UNCHANGED <<file, tokens, clients, currentTokenIndex, workers,
                 currentPrompts, promptsPerWorker, wk, main, summary, drawn,
                 pidx, loaded, op, wk1>>

\* await fetch(...) settles: a rejection passes through request and
\* generateImage; a status outside 2xx is returned as an Err
FetchSettled ==
  /\ call.pc = "fetch"
  /\ call' = IF call.fetch = NoResponse
               THEN Thrown(call, "fetch failed")
               ELSE IF call.fetch # 200
                 THEN Returned(call, "Err", HttpError(call.fetch))
                 ELSE [call EXCEPT !.pc = "text"]
  /\ UNCHANGED <<file, tokens, clients, currentTokenIndex, workers,
                 currentPrompts, promptsPerWorker, wk, main, summary, drawn,
                 pidx, loaded, op, wk1>>

\* await response.text() settles; request returns {Ok: data}; an empty body
\* makes !resp.Ok true and generateImage returns {Err: resp.Err}, which is
\* {Err: undefined}
TextSettled ==
  /\ call.pc = "text"
  /\ call' = IF call.text = "fault"
               THEN Thrown(call, "body read failed")
               ELSE IF call.text = ""
                 THEN Returned(call, "Err", Undefined)
                 ELSE ParseResponse(call, call.text)
  /\ UNCHANGED <<file, tokens, clients, currentTokenIndex, workers,
                 currentPrompts, promptsPerWorker, wk, main, summary, drawn,
                 pidx, loaded, op, wk1>>

NextClient == CheckCredentials \/ GetNewProjectId \/ FetchSettled \/ TextSettled

SpecClient == InitClient /\ [][NextClient]_vars

\* ---------------------------------------------------------------------
\* index.js, the variant with one token: generateImagesWorker and
\* generateImages.  A worker record holds the locals of one call:
\*   pc       "inflight" (this.client.generateImage), "delay" (setTimeout),
\*            "done" (returned)
\*   i        index of the current prompt in the slice (0-based)
\*   results  { success, failed, images }
\*   calls, last: history (not read by the code): the number of calls of
\*            this.client.generateImage and what the latest one came to
\* config.prompts is currentPrompts.
\* ---------------------------------------------------------------------
NewSingleResults == [success |-> 0, failed |-> 0, images |-> <<>>]

NewSingleWorker ==
  [pc |-> "idle", i |-> 0, results |-> NewSingleResults, calls |-> 0,
   last |-> "none"]

\* What a call comes to for this worker: the outcomes of Outcomes, whose
\* error messages the worker does not look at.
SingleOutcomes == {o \in Outcomes : ~o.api}

\* The path of a saved image, by the parts of its file name
\* worker<workerId + 1>_<Date.now()>_<savedCount + 1>.jpg
SingleImagePath(id, w, k) == <<"worker", id + 1, w.i, k>>

\* results.images.push(filePath) for the images 1..n of one response
SinglePushImages(id, w, n) ==
  [w EXCEPT !.results.images =
     @ \o [k \in 1..n |-> SingleImagePath(id, w, k)]]

\* the await of this.client.generateImage for the prompt at index i
SingleRequest(w, i) ==
  [w EXCEPT !.i = i, !.pc = "inflight", !.calls = @ + 1]

\* "continue": i++ and the loop test, then the next call or the return
SingleContinue(w, slice) ==
  IF w.i + 1 < Len(slice) THEN SingleRequest(w, w.i + 1)
                          ELSE [w EXCEPT !.pc = "done"]

\* the end of the loop body: if (i < prompts.length - 1) await the delay
SingleEndOfBody(w, slice) ==
  IF w.i < Len(slice) - 1 THEN [w EXCEPT !.pc = "delay"]
                          ELSE [w EXCEPT !.pc = "done"]

\* the settling of a call that adds the images saved before a failed save
\* to results.success
SingleSettledCountsSaved(id, w, slice, o) ==
  IF o.kind \in {"Err", "NoPanels"}
    THEN SingleContinue([w EXCEPT !.results.failed = @ + 1, !.last = o.kind],
                        slice)
    ELSE IF o.kind = "Throw" \/ o.failAt > 0
      THEN LET saved == IF o.kind = "Panels" THEN o.failAt - 1 ELSE 0
           IN  SingleEndOfBody(
                 [SinglePushImages(id, w, saved) EXCEPT
                    !.results.failed = @ + 1, !.results.success = @ + saved,
                    !.last = "Throw"],
                 slice)
      ELSE SingleEndOfBody(
             [SinglePushImages(id, w, o.n) EXCEPT
                !.results.success = @ + o.n, !.last = "Ok"],
             slice)

\* The call settles and the worker runs to its next await: result.Err and
\* an Ok without image panels count the prompt failed and continue; a
\* throw of the call or of a save is caught, counted, and followed by the
\* end of the body; otherwise the saved images are counted.
SingleSettled(id, w, slice, o) ==
  IF o.kind \in {"Err", "NoPanels"}
    THEN SingleContinue([w EXCEPT !.results.failed = @ + 1, !.last = o.kind],
                        slice)
    ELSE IF o.kind = "Throw" \/ o.failAt > 0
      THEN LET saved == IF o.kind = "Panels" THEN o.failAt - 1 ELSE 0
           IN  SingleEndOfBody(
                 [SinglePushImages(id, w, saved) EXCEPT
                    !.results.failed = @ + 1, !.last = "Throw"],
                 slice)
      ELSE SingleEndOfBody(
             [SinglePushImages(id, w, o.n) EXCEPT
                !.results.success = @ + o.n, !.last = "Ok"],
             slice)

\* promptsPerWorker.map(...): a worker with an empty slice is replaced by a
\* resolved result, the others run to their first await
StartSingleWorkers(ppw) ==
  [id \in DOMAIN ppw |->
     IF Len(ppw[id]) = 0 THEN [NewSingleWorker EXCEPT !.pc = "done"]
                         ELSE SingleRequest(NewSingleWorker, 0)]

\* The state in which generateImages of index.js is called: any number of
\* prompts (a prompt file may hold none), any worker count.
InitSingle ==
  /\ file = << <<>> >>
  /\ tokens = <<>>
  /\ clients = <<>>
  /\ currentTokenIndex = 0
  /\ workers \in 1..MaxWorkers
  /\ currentPrompts \in {[k \in 1..n |-> <<Letters[k]>>] : n \in 0..MaxLines}
  /\ promptsPerWorker = <<>>
  /\ wk = <<>>
  /\ main = "menu"
  /\ summary = NoSummary
  /\ drawn = <<>>
  /\ pidx = 0
  /\ loaded = <<>>
  /\ op = NoOp
  /\ wk1 = <<>>
  /\ call = NoCall

\* generateImages: the prompts are distributed and the workers started.
LaunchSingle ==
  /\ main = "menu"
  /\ LET ppw == Distribute(currentPrompts, workers)
     IN  /\ promptsPerWorker' = ppw
         /\ wk1' = StartSingleWorkers(ppw)
  /\ main' = "running"
  /\ UNCHANGED <<file, tokens, clients, currentTokenIndex, workers,
                 currentPrompts, wk, summary, drawn, pidx, call,
                 loaded, op>>

\* this.client.generateImage, and the saves of its images, settle.
SingleResponse(id) ==
  /\ main = "running"
  /\ wk1[id].pc = "inflight"
  /\ \E o \in SingleOutcomes :
       wk1' = [wk1 EXCEPT ![id] =
                 SingleSettled(id, wk1[id], promptsPerWorker[id], o)]
  /\ UNCHANGED <<file, tokens, clients, currentTokenIndex, workers,
                 currentPrompts, promptsPerWorker, wk, main, summary, drawn,
                 pidx, call, loaded, op>>

\* The 500 ms between two prompts of a worker elapse.
SingleDelayElapsed(id) ==
  /\ main = "running"
  /\ wk1[id].pc = "delay"
  /\ wk1' = [wk1 EXCEPT ![id] = SingleRequest(wk1[id], wk1[id].i + 1)]
  /\ UNCHANGED <<file, tokens, clients, currentTokenIndex, workers,
                 currentPrompts, promptsPerWorker, wk, main, summary, drawn,
                 pidx, call, loaded, op>>

\* Promise.all settles and the results are aggregated.
SingleAggregate ==
  /\ main = "running"
  /\ \A id \in DOMAIN wk1 : wk1[id].pc = "done"
  /\ LET results == [k \in 1..workers |-> wk1[k - 1].results]
     IN  summary' = [made |-> TRUE,
                     totalSuccess |-> Reduce(results, "success"),
                     totalFailed |-> Reduce(results, "failed"),
                     allImages |-> FlatMap(results, "images")]
  /\ main' = "done"
  /\ UNCHANGED <<file, tokens, clients, currentTokenIndex, workers,
                 currentPrompts, promptsPerWorker, wk, drawn, pidx, call,
                 loaded, op, wk1>>

NextSingle ==
  \/ LaunchSingle
  \/ \E id \in DOMAIN wk1 : SingleResponse(id)
  \/ \E id \in DOMAIN wk1 : SingleDelayElapsed(id)
  \/ SingleAggregate

SpecSingle == InitSingle /\ [][NextSingle]_vars

\* ---------------------------------------------------------------------
\* The two workers side by side: generateImagesWorker of part_000 (wk) and
\* of index.js (wk1) run on the same slice with one token, and the calls
\* they make for the same prompt settle in the same way.  A response holds
\* up to MaxTwinImages images.
\* ---------------------------------------------------------------------
TwinOutcomes == OutcomesUpTo(MaxTwinImages)

InitTwin ==
  BatchInit({MakeFile(n, n) : n \in 1..MaxTwinPrompts},
            {SubSeq(TokenNames, 1, 1)}, {1})
  /\ clients = InitializeClients(tokens)

\* Both workers are started on the slice of worker 0.
LaunchTwin ==
  /\ main = "menu"
  /\ LET prompts == LoadPrompts(file)
         ppw == Distribute(prompts, workers)
         r == StartWorkers([id \in 0..(workers - 1) |-> NewWorker],
                           currentTokenIndex, ppw, clients, 0)
     IN  /\ currentPrompts' = prompts
         /\ promptsPerWorker' = ppw
         /\ wk' = r.wk
         /\ currentTokenIndex' = r.idx
         /\ wk1' = StartSingleWorkers(ppw)
  /\ main' = "running"
  /\ loaded' = file
  /\ UNCHANGED <<file, tokens, clients, workers, summary, drawn, pidx, call,
                 op>>

\* The calls of the two workers for the same prompt settle alike.
TwinResponse ==
  /\ main = "running"
  /\ wk[0].pc = "inflight"
  /\ wk1[0].pc = "inflight"
  /\ wk[0].i = wk1[0].i
  /\ \E o \in TwinOutcomes :
       /\ Settle(0, o)
       /\ wk1' = [wk1 EXCEPT ![0] =
                    SingleSettled(0, wk1[0], promptsPerWorker[0], o)]
  /\ UNCHANGED <<file, tokens, clients, workers, currentPrompts,
                 promptsPerWorker, main, summary, drawn, pidx, call,
                 loaded, op>>

\* The worker of part_000 has returned early: the worker of index.js goes
\* on with the rest of the slice by itself.
TwinRest ==
  /\ main = "running"
  /\ wk[0].pc = "done"
  /\ wk1[0].pc = "inflight"
  /\ \E o \in TwinOutcomes :
       wk1' = [wk1 EXCEPT ![0] =
                 SingleSettled(0, wk1[0], promptsPerWorker[0], o)]
  /\ UNCHANGED <<file, tokens, clients, currentTokenIndex, workers,
                 currentPrompts, promptsPerWorker, wk, main, summary, drawn,
                 pidx, call, loaded, op>>

NextTwin ==
  \/ LaunchTwin
  \/ TwinResponse
  \/ TwinRest
  \/ ReadFile(0)
  \/ OpenFile(0)
  \/ WriteFile(0)
  \/ DelayElapsed(0)
  \/ SingleDelayElapsed(0)

SpecTwin == InitTwin /\ [][NextTwin]_vars

\* ---------------------------------------------------------------------
\* Properties.
\* ---------------------------------------------------------------------
Range(s) == {s[k] : k \in DOMAIN s}

\* the prompts still pending in the file
Pending == LoadPrompts(file)

\* number of occurrences of x in the sequence s
RECURSIVE Count(_, _)
Count(s, x) ==
  IF s = <<>> THEN 0 ELSE (IF Head(s) = x THEN 1 ELSE 0) + Count(Tail(s), x)

\* the lists of a worker result; a result without the field has no such list
ListOf(r, f) == IF f \in DOMAIN r THEN r[f] ELSE <<>>

\* number of occurrences of x in the lists f of all worker results
RECURSIVE CountAll(_, _, _)
CountAll(rs, f, x) ==
  IF rs = <<>> THEN 0
  ELSE Count(ListOf(Head(rs), f), x) + CountAll(Tail(rs), f, x)

\* the prompts of a slice that the worker gave up without an attempt
SkippedPrompts(id) ==
  LET slice == promptsPerWorker[id]
  IN  {slice[k] : k \in (Len(slice) - wk[id].skipped + 1)..Len(slice)}

\* C1: once every worker has returned and the report is made, no prompt
\* that a worker recorded in completedPrompts is still pending in the file
\* (no removePromptFromFile having failed): a removal is never undone by the
\* concurrent removal of another worker.
C1_CompletedPromptsGone ==
  (main = "done" /\ \A id \in DOMAIN wk : ~wk[id].removeFailed)
    => \A id \in DOMAIN wk :
         \A p \in Range(wk[id].results.completedPrompts) : p \notin Range(Pending)

\* C2: when three prompts in a row of a worker have ended unsuccessfully after
\* a 429/401 attempt, the worker returns in that very step, every prompt after
\* the third is appended to failedPrompts and counted once in failed, and a
\* worker that has returned issues no further call.
C2_ThreeApiFailuresStopWorker ==
  [][\A id \in DOMAIN wk \cap DOMAIN wk' :
       LET w == wk[id]
           v == wk'[id]
           slice == promptsPerWorker[id]
           rest == SubSeq(slice, w.i + 2, Len(slice))
           fp == v.results.failedPrompts
       IN  /\ (w.apiRun < 3 /\ v.apiRun >= 3) =>
                /\ v.pc = "done"
                /\ v.skipped = Len(rest)
                /\ Len(fp) >= Len(rest)
                /\ SubSeq(fp, Len(fp) - Len(rest) + 1, Len(fp)) = rest
                /\ v.results.failed = w.results.failed + 1 + Len(rest)
           /\ (w.pc = "done" => v = w)
           /\ (v.apiRun >= 3 => v.pc = "done")]_vars

C2_Witness ==
  \E id \in DOMAIN wk :
    /\ wk[id].apiRun >= 3
    /\ wk[id].pc = "done"
    /\ wk[id].skipped >= 1
    /\ Len(clients) >= 2

\* C3: with a pool of P >= 1 clients, a prompt all of whose attempts fail gets
\* exactly P generation calls, is then pushed once onto failedPrompts and
\* adds one to failed; no prompt ever gets more than P calls.
C3_ExactlyPoolSizeAttempts ==
  [][\A id \in DOMAIN wk \cap DOMAIN wk' :
       LET w == wk[id]
           v == wk'[id]
           slice == promptsPerWorker[id]
           more == v.skipped - w.skipped
       IN  /\ Len(v.used) <= (IF Len(clients) > 1 THEN Len(clients) ELSE 1)
           /\ (w.pc = "inflight" /\ v.pc \in {"delay", "done"}) =>
                /\ Len(w.used) = (IF Len(clients) > 1 THEN Len(clients) ELSE 1)
                /\ v.results.failed = w.results.failed + 1 + more
                /\ v.results.failedPrompts =
                     w.results.failedPrompts \o <<slice[w.i + 1]>>
                       \o SubSeq(slice, w.i + 2, w.i + 1 + more)]_vars

C3_Witness ==
  \E id \in DOMAIN wk :
    /\ wk[id].last = "abandoned"
    /\ Len(clients) = 2
    /\ wk[id].results.failed = 1
    /\ wk[id].results.failedPrompts = <<promptsPerWorker[id][1]>>

\* C4: after initializeClients, the k-th getNextClient returns the client at
\* position (k - 1) mod P: P calls return every client once in pool order and
\* call P + 1 returns the first client again.
C4_RoundRobin ==
  Len(clients) >= 1 =>
    \A k \in DOMAIN drawn : drawn[k] = clients[((k - 1) % Len(clients)) + 1]

C4_Witness ==
  /\ Len(clients) = 3
  /\ drawn = <<clients[1], clients[2], clients[3], clients[1]>>

\* C5: getNextClient returns null exactly when the pool is empty, otherwise a
\* client of a token that is in the pool at the time; with a non-empty pool the
\* cursor is in [0, pool size).
C5_ClientFromPool ==
  /\ \A k \in DOMAIN drawn :
       /\ (drawn[k] = Null) <=> (Len(tokens) = 0)
       /\ Len(tokens) > 0 => drawn[k] \in Range(tokens)
  /\ Len(tokens) > 0 => currentTokenIndex \in 0..(Len(tokens) - 1)

C5_Witness ==
  /\ Len(tokens) = 0
  /\ currentTokenIndex > 0
  /\ Len(drawn) > 0

\* the indices i < n with i mod nw = w, as a count
SliceSize(n, nw, w) == Cardinality({i \in 0..(n - 1) : i % nw = w})

\* C6: the prompt at index i goes to worker i mod workerCount and to no
\* other, and a slice keeps the order of the prompt list.
C6_RoundRobinSlices ==
  main = "distributing" =>
    \A w \in 0..(workers - 1) :
      /\ Len(promptsPerWorker[w]) = SliceSize(pidx, workers, w)
      /\ \A j \in DOMAIN promptsPerWorker[w] :
           promptsPerWorker[w][j] = currentPrompts[(j - 1) * workers + w + 1]

C6_Witness ==
  /\ main = "distributing"
  /\ workers = 3
  /\ pidx = 9
  /\ Cardinality(Range(currentPrompts)) = 9
  /\ promptsPerWorker[0] = <<currentPrompts[1], currentPrompts[4], currentPrompts[7]>>
  /\ promptsPerWorker[1] = <<currentPrompts[2], currentPrompts[5], currentPrompts[8]>>
  /\ promptsPerWorker[2] = <<currentPrompts[3], currentPrompts[6], currentPrompts[9]>>

\* C7: the summary is made only when every worker has returned; a step changes
\* the locals of at most one worker; and a worker returns before the end of
\* its slice only after three of its own prompts in a row ended
\* unsuccessfully after a 429/401 attempt.
C7_SiblingsUnaffected ==
  [][/\ summary'.made => \A id \in DOMAIN wk' : wk'[id].pc = "done"
     /\ main = "running" =>
          Cardinality({id \in DOMAIN wk : wk'[id] # wk[id]}) <= 1
     /\ \A id \in DOMAIN wk' :
          (wk'[id].pc = "done" /\ Len(promptsPerWorker'[id]) > 0) =>
            \/ wk'[id].i = Len(promptsPerWorker'[id]) - 1 /\ wk'[id].skipped = 0
            \/ wk'[id].apiRun >= 3]_vars

C7_Witness ==
  \E a \in DOMAIN wk : \E b \in DOMAIN wk :
    /\ a # b
    /\ wk[a].pc = "done"
    /\ wk[a].apiRun >= 3
    /\ wk[b].pc = "inflight"
    /\ wk[b].i = 0

\* C8: the totals are the sums of the workers' counts, and the aggregated
\* images, completedPrompts and failedPrompts are the multiset union of the
\* workers' lists: only paths of saved images and prompts of the input
\* (stated for runs with a non-empty client pool).
C8_AggregationIsUnion ==
  (summary.made /\ Len(clients) > 0) =>
    LET results == ResultList(wk, workers)
        all == [images |-> summary.allImages,
                completedPrompts |-> summary.allCompletedPrompts,
                failedPrompts |-> summary.allFailedPrompts]
    IN  /\ summary.totalSuccess = Reduce(results, "success")
        /\ summary.totalFailed = Reduce(results, "failed")
        /\ \A f \in DOMAIN all : \A x \in Range(all[f]) :
             Count(all[f], x) = CountAll(results, f, x)
        /\ Range(summary.allCompletedPrompts) \subseteq Range(currentPrompts)
        /\ Range(summary.allFailedPrompts) \subseteq Range(currentPrompts)

\* C9: with an empty client pool every prompt of a slice adds one to failed,
\* no generation call is issued, and the worker never returns early.
C9_EmptyPoolFailsEveryPrompt ==
  (main \in {"running", "done"} /\ Len(clients) = 0) =>
    \A id \in DOMAIN wk :
      /\ wk[id].pc \in {"delay", "done"}
      /\ wk[id].used = <<>>
      /\ wk[id].consecutivePromptErrors = 0
      /\ wk[id].skipped = 0
      /\ wk[id].results.success = 0
      /\ Len(promptsPerWorker[id]) > 0 => wk[id].results.failed = wk[id].i + 1
      /\ wk[id].pc = "done" => wk[id].results.failed = Len(promptsPerWorker[id])

C9_Witness ==
  /\ main = "done"
  /\ Len(clients) = 0
  /\ \E id \in DOMAIN wk : wk[id].results.failed >= 2

\* C10: every prompt that a worker gave up without an attempt, because it
\* returned early, is still pending in the file when the remaining prompts
\* are counted.
C10_SkippedPromptsStayPending ==
  main = "done" =>
    \A id \in DOMAIN wk : SkippedPrompts(id) \subseteq Range(Pending)

\* the prompts a worker gave up after using up the attempts of the prompt
AbandonedPrompts(id) ==
  LET fp == ListOf(wk[id].results, "failedPrompts")
  IN  {fp[k] : k \in 1..(Len(fp) - wk[id].skipped)}

\* C11: when the final report is produced, no prompt that a worker abandoned
\* after its maximum number of attempts is still pending in the file.
C11_AbandonedPromptsRemoved ==
  main = "done" =>
    \A id \in DOMAIN wk : AbandonedPrompts(id) \cap Range(Pending) = {}

\* the images of a worker all of whose calls returned one image that was saved
OneImageEach(id) ==
  [j \in 1..Len(promptsPerWorker[id]) |-> ImagePath(id, [i |-> j - 1], 1)]

\* C12: one token, the prompts a and b, every call returns one image and
\* every save and removal goes through: for every worker count and every
\* interleaving the report shows 2 successes, 0 failures and 0 remaining
\* prompts, and no prompt is left in the file.
C12_TwoPromptsAllSucceed ==
  (/\ main = "done"
   /\ Len(clients) = 1
   /\ currentPrompts = <<<<"a">>, <<"b">>>>
   /\ summary.counted
   /\ \A id \in DOMAIN wk :
        /\ ~wk[id].removeFailed
        /\ wk[id].results.completedPrompts = promptsPerWorker[id]
        /\ wk[id].results.images = OneImageEach(id))
    => /\ summary.totalSuccess = 2
       /\ summary.totalFailed = 0
       /\ summary.remainingPrompts = 0
       /\ Pending = <<>>

\* the run of the single worker in which the prompts a, b and c each ended
\* after a 429/401 answer of the only token
RateLimitedRun ==
  /\ main = "done"
  /\ workers = 1
  /\ Len(clients) = 1
  /\ currentPrompts = <<<<"a">>, <<"b">>, <<"c">>, <<"d">>>>
  /\ summary.counted
  /\ wk[0].apiRun >= 3
  /\ wk[0].i = 2

\* C13: one token that always answers 429, the prompts a, b, c, d and one
\* worker: three generation calls are made, d is never attempted, failed is 4
\* with failedPrompts = [a, b, c, d], and all four prompts are still pending,
\* so that the report counts 4 remaining prompts.
C13_RateLimitedSingleWorker ==
  RateLimitedRun =>
    /\ wk[0].calls = 3
    /\ wk[0].skipped = 1
    /\ wk[0].results.failed = 4
    /\ wk[0].results.failedPrompts = currentPrompts
    /\ wk[0].results.completedPrompts = <<>>
    /\ Pending = currentPrompts
    /\ summary.totalFailed = 4
    /\ summary.totalSuccess = 0
    /\ summary.remainingPrompts = 4

C13_Witness ==
  /\ RateLimitedRun
  /\ wk[0].calls = 3
  /\ summary.remainingPrompts = 4

\* a line that is an occurrence of the prompt: not a comment, and equal to
\* it after trimming
Occurrence(l, prompt) == ~StartsWithHash(l) /\ Trim(l) = Trim(prompt)

\* the sequence s without its k-th element
RemoveAt(s, k) == SubSeq(s, 1, k - 1) \o SubSeq(s, k + 1, Len(s))

\* the workers inside removePromptFromFile that have read the file
Removing == {id \in DOMAIN wk : wk[id].pc \in {"opening", "writing"}}

\* the prompt a worker is removing, and the lines it is about to write
PromptOf(id) == promptsPerWorker[id][wk[id].i + 1]

FilteredLines(id) == FilterLines(wk[id].lines, PromptOf(id))

\* C14: when the content that removePromptFromFile read holds the prompt
\* k >= 1 times as a non-comment line, the content it writes holds it k - 1
\* times, and every other line is kept in its place: the written lines are
\* the read lines without one occurrence of the prompt.
C14_DropsExactlyOneLine ==
  \A id \in Removing :
    LET lines == wk[id].lines
        occ == {k \in DOMAIN lines : Occurrence(lines[k], PromptOf(id))}
    IN  occ # {} =>
          /\ \E k \in occ : FilteredLines(id) = RemoveAt(lines, k)
          /\ Cardinality({k \in DOMAIN FilteredLines(id) :
                            Occurrence(FilteredLines(id)[k], PromptOf(id))})
               = Cardinality(occ) - 1

\* C15: removePromptFromFile returns true exactly when it dropped a line:
\* when its write went through and the content it read held an occurrence
\* of the prompt; with no occurrence it returns false.  (The return value is
\* false exactly when the step records a failed removal.)
C15_TrueIffLineDropped ==
  [][\A id \in DOMAIN wk \cap DOMAIN wk' :
       (wk[id].pc = "writing" /\ wk'[id].pc # "writing"
          /\ ~wk[id].removeFailed) =>
         LET returned == ~wk'[id].removeFailed
             dropped == /\ ~wk'[id].removeFailed
                        /\ Len(FilteredLines(id)) < Len(wk[id].lines)
         IN  returned <=> dropped]_vars

\* s is a subsequence of t: s is t with some elements left out
RECURSIVE IsSubsequence(_, _)
IsSubsequence(s, t) ==
  IF s = <<>> THEN TRUE
  ELSE IF t = <<>> THEN FALSE
  ELSE IF Head(s) = Head(t) THEN IsSubsequence(Tail(s), Tail(t))
  ELSE IsSubsequence(s, Tail(t))

\* the comment lines of a file, in order
CommentLines(lines) == SelectSeq(lines, StartsWithHash)

\* C16: in every state of a batch run the lines of the file are a
\* subsequence of its lines at batch start (no line duplicated, reordered or
\* invented), and all its comment lines are still there.
C16_FileIsSubsequence ==
  main \in {"running", "done"} =>
    /\ IsSubsequence(file, loaded)
    /\ CommentLines(file) = CommentLines(loaded)

\* C17: at no time are two workers both between the read and the write of
\* removePromptFromFile, and no worker is about to write lines it read
\* before the latest write of another worker.
C17_RemovalsExclusive ==
  /\ Cardinality(Removing) <= 1
  /\ \A id \in Removing : wk[id].pc = "opening" => wk[id].lines = file

\* the positions of a worker that is suspended in an await or has returned
WorkerPositions == {"inflight", "reading", "opening", "writing", "delay", "done"}

\* C18: whatever the attempts come to (an Err, an exception of the client, a
\* failed save, a failed removal), every started worker stays in its loop or
\* has returned its result record, and the batch reaches the final summary
\* with the sums of the workers' counts.
C18_BatchReachesSummary ==
  /\ [](main \in {"running", "done"} =>
         \A id \in DOMAIN wk :
           /\ wk[id].pc \in WorkerPositions
           /\ {"success", "failed", "images", "completedPrompts"}
                \subseteq DOMAIN wk[id].results)
  /\ (main = "running") ~>
       (/\ main = "done"
        /\ summary.made
        /\ \A id \in DOMAIN wk : wk[id].pc = "done"
        /\ summary.totalSuccess = Reduce(ResultList(wk, workers), "success")
        /\ summary.totalFailed = Reduce(ResultList(wk, workers), "failed"))

C18_Witness ==
  /\ main = "done"
  /\ summary.made
  /\ \E id \in DOMAIN wk :
       /\ wk[id].removeFailed
       /\ wk[id].results.failed >= 1
       /\ wk[id].results.completedPrompts # <<>>

\* the calls of generateImage that cannot succeed: no key, no response, a
\* status outside 2xx, a body that is not JSON, or a body with an error field
FailingCall ==
  \/ call.authorizationKey = ""
  \/ call.fetch # 200
  \/ call.text \in {"fault", "", "garbage", "null", "error"}

\* C19: generateImage never throws and sends at most one request; a call
\* that fails for a missing key, a network fault, a status outside 2xx, an
\* unparsable body or an error field returns an Err.
C19_FailuresAreReturned ==
  call.pc # "none" =>
    /\ call.pc # "thrown"
    /\ call.requests <= 1
    /\ (call.pc = "returned" /\ FailingCall) => call.result.kind = "Err"

\* C20: a batch started with no configured token, with no pending prompt, or
\* with a file that cannot be loaded stops before any worker is started: no
\* worker exists (so no generation call is made), the cursor is where it
\* was and the file is not written.
C20_NoLaunchWithoutTokensOrPrompts ==
  /\ [][(/\ main = "menu"
         /\ \/ Len(tokens) = 0
            \/ Len(LoadPrompts(file)) = 0
            \/ main' = "aborted")
          => /\ main' \in {"menu", "aborted"}
             /\ wk' = <<>>
             /\ currentTokenIndex' = currentTokenIndex
             /\ file' = file]_vars
  /\ [](main = "aborted" => wk = <<>> /\ promptsPerWorker = <<>>)

C20_Witness ==
  /\ main = "aborted"
  /\ \/ Len(tokens) = 0 /\ currentPrompts # <<>>
     \/ Len(tokens) > 0 /\ currentTokenIndex > 0 /\ Pending = <<>>
  /\ wk = <<>>

\* C21: addToken with a secret that is already in the pool is turned down
\* and leaves the tokens, the clients and the cursor as they were; the
\* secrets of the pool are pairwise distinct after any sequence of addToken,
\* removeToken and clearAllTokens.
C21_DuplicateTokenRejected ==
  /\ [][(op'.name = "addToken" /\ op'.input \in Range(tokens)) =>
          /\ ~op'.done
          /\ tokens' = tokens
          /\ clients' = clients
          /\ currentTokenIndex' = currentTokenIndex]_vars
  /\ [](\A j \in DOMAIN tokens : \A k \in DOMAIN tokens :
           tokens[j] = tokens[k] => j = k)

C21_Witness ==
  /\ op.name = "addToken"
  /\ ~op.done
  /\ op.input \in Range(tokens)
  /\ Len(tokens) >= 2
  /\ currentTokenIndex > 0

\* the positions of a worker inside the attempts of a prompt
InPrompt == {"inflight", "reading", "opening", "writing"}

\* C22: when a prompt ends, the streak counter is the number of prompts in a
\* row that ended unsuccessfully after a 429/401 attempt: a prompt that
\* succeeds (after 429/401 attempts or not) and a prompt given up without a
\* 429/401 attempt set it to 0; a worker gives up prompts without an attempt
\* only when its last three prompts each ended that way.
C22_StreakNeedsThreeApiFailures ==
  /\ [][\A id \in DOMAIN wk \cap DOMAIN wk' :
          LET w == wk[id]
              v == wk'[id]
          IN  (w.pc \in InPrompt /\ v.pc \in {"delay", "done"}) =>
                /\ v.consecutivePromptErrors = v.apiRun
                /\ v.last = "succeeded" => v.consecutivePromptErrors = 0
                /\ v.apiRun = 0 => v.consecutivePromptErrors = 0
                /\ v.skipped > 0 => v.apiRun >= 3 /\ v.i >= 2]_vars
  /\ [](\A id \in DOMAIN wk :
          wk[id].skipped > 0 => wk[id].pc = "done" /\ wk[id].apiRun >= 3)

C22_Witness ==
  \E id \in DOMAIN wk :
    /\ wk[id].pc = "done"
    /\ wk[id].skipped = 1
    /\ wk[id].i = 3
    /\ Len(wk[id].results.completedPrompts) = 1
    /\ Len(clients) = 2
    /\ wk[id].calls = 8

\* C23: a prompt goes down the success path (removal from the file, then
\* completedPrompts) only if at least one image of the response was saved;
\* a response with no saved image costs an attempt instead.
C23_SuccessNeedsAnImage ==
  \A id \in DOMAIN wk :
    wk[id].pc \in {"reading", "opening", "writing"} => wk[id].savedCount >= 1

\* C24: for every worker count and interleaving, the attempts of a prompt
\* that is given up with a pool of P >= 1 tokens used every token of the pool.
C24_AbandonedAfterEveryToken ==
  [][\A id \in DOMAIN wk \cap DOMAIN wk' :
       (/\ wk[id].pc = "inflight"
        /\ wk'[id].pc \in {"delay", "done"}
        /\ wk'[id].last = "abandoned")
         => Range(wk[id].used) = Range(clients)]_vars

\* C25: in a run of one worker the cursor moves only when a generation call
\* is made, by one, and the call uses the client at the cursor: the tokens of
\* successive calls follow the order of the pool and none is skipped.
C25_EveryDrawnTokenIsUsed ==
  [][(workers = 1 /\ main = "running" /\ main' = "running"
        /\ Len(clients) > 0) =>
       IF wk'[0].calls = wk[0].calls + 1
         THEN /\ wk'[0].client = clients[currentTokenIndex + 1]
              /\ currentTokenIndex' = (currentTokenIndex + 1) % Len(clients)
         ELSE currentTokenIndex' = currentTokenIndex]_vars

\* ---------------------------------------------------------------------
\* C26: a worker goes from a prompt to its next one through exactly one
\* delay, whatever the outcome of the prompt: the prompt index moves only by
\* one and only when a delay elapses, and the step that ends the delay makes
\* the first generation call of the next prompt.  A prompt that ends is
\* followed by a delay exactly when it is not the last one of the slice and
\* the consecutive-error stop did not fire; a further call for the same
\* prompt is made in the step in which the previous call settled, so no
\* delay lies between the attempts of one prompt.
\* ---------------------------------------------------------------------
C26_OneDelayBetweenPrompts ==
  [][\A id \in DOMAIN wk \cap DOMAIN wk' :
       LET w == wk[id]
           v == wk'[id]
           slice == promptsPerWorker[id]
       IN  /\ v.i # w.i => w.pc = "delay" /\ v.i = w.i + 1
           /\ (w.pc = "delay" /\ v # w) =>
                 v.pc = "inflight" /\ v.i = w.i + 1 /\ v.calls = w.calls + 1
           /\ (v.pc = "delay" /\ w.pc # "delay") => w.pc \in InPrompt
           /\ (w.pc \in InPrompt /\ v.pc \in {"delay", "done"}) =>
                 (v.pc = "delay" <=>
                    /\ w.i < Len(slice) - 1
                    /\ v.consecutivePromptErrors < MAX_CONSECUTIVE_PROMPT_ERRORS)
           /\ (v.calls = w.calls + 1 /\ v.i = w.i) =>
                 w.pc = "inflight" /\ v.pc = "inflight"]_vars

\* the first call of the second prompt, made when the delay elapsed after a
\* prompt that was given up on both tokens
C26_Witness ==
  \E id \in DOMAIN wk :
    /\ wk[id].pc = "inflight"
    /\ wk[id].i = 1
    /\ wk[id].last = "abandoned"
    /\ Len(clients) = 2
    /\ wk[id].calls = 3
    /\ Len(wk[id].used) = 1

\* the number of prompts of its slice that worker id has brought to an end
Finished(id) ==
  Len(wk[id].results.completedPrompts) + wk[id].results.failed

\* ---------------------------------------------------------------------
\* C27: a worker works through its slice one prompt and one call at a time.
\* A step issues at most one generation call per worker, and only when the
\* worker has no call pending or its pending call has just settled as a
\* failed attempt; while the worker is busy with the prompt at index i,
\* exactly the i prompts before it have come to an end, and a prompt that is
\* recorded as completed is the one at the worker's index.  So no more
\* workers than config.workers have a call in flight.
\* ---------------------------------------------------------------------
C27_OneCallPerWorkerInOrder ==
  /\ [][\A id \in DOMAIN wk \cap DOMAIN wk' :
          LET w == wk[id]
              v == wk'[id]
              slice == promptsPerWorker[id]
          IN  /\ v.calls \in {w.calls, w.calls + 1}
              /\ v.calls = w.calls + 1 =>
                    /\ v.pc = "inflight"
                    /\ \/ w.pc = "delay" /\ v.i = w.i + 1
                       \/ w.pc = "inflight" /\ v.i = w.i
                                            /\ v.attempts = w.attempts + 1
              /\ v.results.completedPrompts # w.results.completedPrompts =>
                    /\ v.results.completedPrompts =
                         Append(w.results.completedPrompts, slice[w.i + 1])
                    /\ w.pc \in InPrompt /\ v.pc \in {"delay", "done"}]_vars
  /\ [](\A id \in DOMAIN wk :
          /\ wk[id].pc \in InPrompt =>
                wk[id].i < Len(promptsPerWorker[id]) /\ Finished(id) = wk[id].i
          /\ wk[id].pc = "delay" => Finished(id) = wk[id].i + 1
          /\ wk[id].pc = "done" => Finished(id) = Len(promptsPerWorker[id]))
  /\ [](Cardinality({id \in DOMAIN wk : wk[id].pc = "inflight"}) <= workers)

\* two workers with a call in flight each; worker 0 is at its second prompt
\* and worker 1 at a second attempt for its first
C27_Witness ==
  /\ main = "running"
  /\ workers = 2
  /\ wk[0].pc = "inflight" /\ wk[0].i = 1 /\ Finished(0) = 1
  /\ wk[1].pc = "inflight" /\ wk[1].i = 0 /\ wk[1].attempts = 1

\* ---------------------------------------------------------------------
\* C28: in the step in which removePromptFromFile reports false for the
\* first time in a worker, the prompt is appended to completedPrompts, its
\* images are added to success, nothing is added to failed, the
\* consecutive-error counter is 0, the worker goes to the delay before its
\* next prompt (or returns after its last one), and the prompt, when the
\* file held it once at batch start, is still pending in the file.
\* ---------------------------------------------------------------------
C28_FailedRemovalKeepsOutcome ==
  [][\A id \in DOMAIN wk \cap DOMAIN wk' :
       LET w == wk[id]
           v == wk'[id]
           slice == promptsPerWorker[id]
       IN  (~w.removeFailed /\ v.removeFailed) =>
             /\ v.results.completedPrompts =
                  Append(w.results.completedPrompts, slice[w.i + 1])
             /\ v.results.success = w.results.success + w.savedCount
             /\ v.results.failed = w.results.failed
             /\ v.results.failedPrompts = w.results.failedPrompts
             /\ v.last = "succeeded"
             /\ v.consecutivePromptErrors = 0
             /\ v.pc = IF w.i < Len(slice) - 1 THEN "delay" ELSE "done"
             /\ Count(LoadPrompts(loaded), slice[w.i + 1]) = 1 =>
                  slice[w.i + 1] \in Range(LoadPrompts(file'))]_vars

\* ---------------------------------------------------------------------
\* C29: when every await of a started batch settles, generateImages
\* reaches its summary, which it makes only after every worker has
\* returned; and at no time has a worker with
\* n prompts in its slice and a pool of P >= 1 clients made more than n * P
\* calls of client.generateImage.
\* ---------------------------------------------------------------------
C29_BatchTerminatesWithinBound ==
  /\ [](\A id \in DOMAIN wk :
          Len(clients) >= 1 =>
            wk[id].calls <= Len(promptsPerWorker[id]) * Len(clients))
  /\ [](main = "done" => \A id \in DOMAIN wk : wk[id].pc = "done")
  /\ (main = "running") ~> (main = "done" /\ summary.made)

\* the summary of a batch in which a worker used every token for each of
\* its two prompts
C29_Witness ==
  /\ main = "done"
  /\ summary.made
  /\ Len(clients) = 2
  /\ \E id \in DOMAIN wk :
       /\ Len(promptsPerWorker[id]) >= 2
       /\ wk[id].calls = Len(promptsPerWorker[id]) * Len(clients)

\* ---------------------------------------------------------------------
\* C30: in index.js a worker makes every call of this.client.generateImage
\* after the first one in the step in which its 500 ms delay elapsed, so a
\* delay lies between any two consecutive requests of a worker, whatever
\* the earlier one came to.
\* ---------------------------------------------------------------------
C30_DelayBetweenRequests ==
  [][\A id \in DOMAIN wk1 \cap DOMAIN wk1' :
       wk1'[id].calls = wk1[id].calls + 1 => wk1[id].pc = "delay"]_vars

\* ---------------------------------------------------------------------
\* C31: with at least one client in the pool, a worker that has returned
\* holds every prompt of its slice in completedPrompts or in failedPrompts,
\* as often as the slice holds it: the two lists together are as long as
\* the slice, and each prompt occurs in them as many times as in the slice.
\* ---------------------------------------------------------------------
C31_SliceIsPartitioned ==
  \A id \in DOMAIN wk :
    LET slice == promptsPerWorker[id]
        r == wk[id].results
    IN  (wk[id].pc = "done" /\ Len(slice) > 0 /\ Len(clients) >= 1) =>
          /\ Len(r.completedPrompts) + Len(r.failedPrompts) = Len(slice)
          /\ \A x \in Range(slice) :
                Count(r.completedPrompts, x) + Count(r.failedPrompts, x)
                  = Count(slice, x)

\* a returned worker with a completed prompt, prompts given up after every
\* token, and a rest of the slice it never attempted
C31_Witness ==
  \E id \in DOMAIN wk :
    /\ wk[id].pc = "done"
    /\ Len(clients) = 2
    /\ wk[id].skipped >= 1
    /\ Len(wk[id].results.completedPrompts) >= 1
    /\ Len(wk[id].results.failedPrompts) > wk[id].skipped

\* ---------------------------------------------------------------------
\* C32: whatever the size of the pool, a worker that has returned counts in
\* results.failed exactly the prompts it holds in failedPrompts.
\* ---------------------------------------------------------------------
C32_FailedCountsFailedPrompts ==
  \A id \in DOMAIN wk :
    (wk[id].pc = "done" /\ Len(promptsPerWorker[id]) > 0) =>
      wk[id].results.failed = Len(wk[id].results.failedPrompts)

\* ---------------------------------------------------------------------
\* C33: a worker that has returned, of part_000 or of index.js, has counted
\* in results.success exactly the image paths it holds in results.images,
\* also when a save failed after earlier images of the response were saved.
\* ---------------------------------------------------------------------
C33_SuccessCountsImages ==
  /\ \A id \in DOMAIN wk :
       wk[id].pc = "done" =>
         wk[id].results.success = Len(wk[id].results.images)
  /\ \A id \in DOMAIN wk1 :
       wk1[id].pc = "done" =>
         wk1[id].results.success = Len(wk1[id].results.images)

\* both workers have returned and the worker of part_000 did not stop on
\* consecutive 429/401 prompts
BothReturned ==
  /\ main = "running"
  /\ wk[0].pc = "done"
  /\ wk1[0].pc = "done"
  /\ wk[0].consecutivePromptErrors < MAX_CONSECUTIVE_PROMPT_ERRORS

\* what a file name says about its image apart from its format: the
\* worker, the response and the sequence number
PartSlots(images) ==
  [k \in DOMAIN images |-> <<images[k][2], images[k][3], images[k][5]>>]

SingleSlots(images) ==
  [k \in DOMAIN images |-> <<images[k][2], images[k][3], images[k][4]>>]

\* ---------------------------------------------------------------------
\* C34 as stated: with one token, the same slice and the same outcome for
\* each prompt, and no stop on consecutive errors, the worker of part_000
\* returns the same success count, failed count and images list as the
\* worker of index.js and has made as many calls.
\* ---------------------------------------------------------------------
C34_SameResultsAsSingle ==
  BothReturned =>
    /\ wk[0].results.success = wk1[0].results.success
    /\ wk[0].results.failed = wk1[0].results.failed
    /\ wk[0].results.images = wk1[0].results.images
    /\ wk[0].calls = wk1[0].calls

\* C34 amended: under the same conditions the two workers return the same
\* success count and failed count, have made as many calls, and their
\* images lists hold the same images in the same order (same worker, same
\* response, same sequence number), under file names of different formats.
C34_SameResultsUpToFileNames ==
  BothReturned =>
    /\ wk[0].results.success = wk1[0].results.success
    /\ wk[0].results.failed = wk1[0].results.failed
    /\ PartSlots(wk[0].results.images) = SingleSlots(wk1[0].results.images)
    /\ wk[0].calls = wk1[0].calls

\* both workers back from a slice of three prompts with a failed prompt,
\* a save that failed after the first image, and a response of two images
C34_Witness ==
  /\ BothReturned
  /\ Len(promptsPerWorker[0]) >= 3
  /\ wk[0].results.failed >= 1
  /\ wk[0].results.success = 2
  /\ Len(wk[0].results.images) = 3
  /\ wk[0].calls = Len(promptsPerWorker[0])

====
